---- MODULE Spec2Model ----
(***************************************************************************)
(* libsync3: signature / delta / apply (src/src/lib.rs).                   *)
(*                                                                         *)
(* The model runs the pipeline the tests run:                              *)
(*     sig = signature_with_chunk_size(Cursor(base), chunk_size)           *)
(*     d   = delta(Cursor(target), &sig)                                   *)
(*     out = apply_to_vec(Cursor(base), &d)                                *)
(* one action per loop iteration or return of each of the three functions. *)
(* Byte sequences are TLA+ sequences (1-based); every offset below is the  *)
(* 0-based offset of the Rust code.                                        *)
(***************************************************************************)
EXTENDS Integers, Sequences, FiniteSets, TLC

(***************************************************************************)
(* Bounds of the model.                                                    *)
(***************************************************************************)
\* longest base stream
MaxBaseLen == 5
\* longest target stream
MaxTargetLen == 6
\* largest chunk_size handed to signature_with_chunk_size (0 is included)
MaxChunkSize == 3
\* lib.rs:153 sets TARGET_BATCH_SIZE = 256 * 1024; the model scales it down so
\* that a target of MaxTargetLen bytes spans several read batches.
TARGET_BATCH_SIZE == 4
\* longest base stream of the runs on an edited base (SpecEdit)
MaxEditBaseLen == 7
\* longest base, longest Delta and largest Copy index of the runs of apply on
\* any Delta (SpecApply)
MaxApplyBaseLen == 3
MaxOps == 3
MaxCopyIndex == 2
\* longest base and longest target of the runs over a reader that may fail
\* (SpecIo), and the most reads it answers with Interrupted in one run
MaxIoBaseLen == 3
MaxIoTargetLen == 4
MaxInterrupts == 2
\* rolling.rs:3-8 set MOD = 65521, BLOCK_SIZE = 32 and NMAX = 5552 for bytes up
\* to 255 and u32 arithmetic; the model scales the three down together with
\* the bytes (RollBytes) and the word (U32), so that a stream of MaxRollLen
\* bytes spans several SIMD blocks and several CHUNK_SIZE chunks.
MOD == 13
BLOCK_SIZE == 2
NMAX == 5
\* longest stream of which every byte sequence is checksummed
MaxRollLen == 8
\* how many bytes a stream with a window that overflows has past that window
LongRolls == 2
\* longest base and longest target of which every byte sequence goes through
\* the lightweight pipeline (SpecLight)
MaxLightBaseLen == 3
MaxLightTargetLen == 4
\* similar files (tests/proptest_delta.rs, large_similar_files): the block
\* size (scaled from DEFAULT_CHUNK_SIZE = 4096; it keeps a block several
\* times the 8 bytes an op is counted as) and the most positions substituted
\* (scaled from 100; the base keeps more blocks than positions substituted)
SimilarChunk == 32
MaxSubs == 1
MaxCallSeq == 3         \* update and roll calls in a sequence of calls
MaxSmallWindow == 2     \* the small window sizes of a sequence of calls
MaxSplitLen == 6        \* bytes of a sequence that is cut into slices
MaxSplits == 4          \* slices it is cut into
MaxBuzLen == 6          \* bytes fed to a BuzHash of a small window
MaxBuzWindow == 3       \* the small window sizes of a BuzHash
MaxWideFeeds == 2       \* bytes fed past a window of BITS bytes or more
MaxFairOps == 1         \* commands of a Delta applied under fairness
MaxFairLen == 3         \* bytes of a stream read under fairness

\* The byte values the streams are drawn from (a sample of u8).
Bytes == {0, 1}

Min(a, b) == IF a < b THEN a ELSE b

\* All sequences over S of length 0..n.
SeqsUpTo(S, n) == UNION {[1..k -> S] : k \in 0..n}

\* data[from..to) with 0-based offsets, as a Rust slice.
Slice(data, from, to) == SubSeq(data, from + 1, to)

VARIABLES
    base,             \* the old data (the bytes behind both Cursor(base))
    target,           \* the new data
    chunk_size,       \* the chunk_size argument of signature_with_chunk_size
    pc,               \* which function is running: "signature", "delta", "apply", "done"
    sig_pos,          \* signature: position of the reader in base
    chunks,           \* signature: Vec<ChunkSignature>
    index,            \* signature: the running block index
    new_pos,          \* delta: position of the reader in target
    ops,              \* delta: Vec<DeltaOp>; after delta returns, Delta.ops
    total_size,       \* delta: total_size; after delta returns, Delta.final_size
    pending_literal,  \* delta: unmatched bytes not yet emitted
    dlt_chunk_size,   \* Delta.chunk_size of the returned Delta
    op_i,             \* apply: how many ops have been applied
    old_pos,          \* apply: position of the reader in base
    output,           \* apply: the bytes written so far
    rd_buf,           \* read_exact_or_eof: buf[..total], the bytes read so far
    interrupts,       \* how many reads the reader has answered with Interrupted
    rd_err,           \* the kind of the last Err the reader returned, or "none"
    result,           \* the Err the running function returned, or "none"
    rd_short,         \* whether the reader has answered a read with fewer
                      \* bytes than were asked for and were left in its data
    rc_data,          \* rolling: the byte stream the checksum runs over
    rc_w,             \* rolling: the window length
    rc_a,             \* rolling: RollingChecksum.a
    rc_b,             \* rolling: RollingChecksum.b
    rc_count,         \* rolling: RollingChecksum.count
    rc_rolls,         \* rolling: how many times roll has been called
    rc_calls,         \* rolling: how many times update has been called
    rc_hi,            \* rolling: the largest intermediate of the last call,
                      \* as the exact result of the operation on its u32
                      \* operands
    rc_lo,            \* rolling: the smallest one
    rc_pc,            \* rolling: "idle", "new", "given", "updated", "rolled"
                      \* or "panic"
    seek_log,         \* apply: the seeks issued on the base, each with the
                      \* position of the reader before it
    bz_data,          \* buzhash: the bytes for the BuzHash since it was new
                      \* or reset, one update each
    bz_n,             \* buzhash: how many of them have been fed
    bz_hash,          \* buzhash: BuzHash.hash
    bz_window,        \* buzhash: BuzHash.window, the circular buffer
    bz_pos,           \* buzhash: BuzHash.pos
    bz_full,          \* buzhash: BuzHash.window_full
    bz_pc             \* buzhash: "idle", "new", "fed", "reset" or "refed"

\* the state of a reader that may fail, and of the function it fails
iovars == <<rd_buf, interrupts, rd_err, result, rd_short>>

\* the state of a RollingChecksum and of its driver
rcvars == <<rc_data, rc_w, rc_a, rc_b, rc_count, rc_rolls, rc_calls, rc_hi,
           rc_lo, rc_pc>>

\* the state of a BuzHash and of its driver
bzvars == <<bz_data, bz_n, bz_hash, bz_window, bz_pos, bz_full, bz_pc>>

vars == <<base, target, chunk_size, pc, sig_pos, chunks, index, new_pos, ops,
          total_size, pending_literal, dlt_chunk_size, op_i, old_pos, output,
          iovars, rcvars, seek_log, bzvars>>

\* a Cursor never fails: the reader state is not used
IoIdle ==
    /\ rd_buf = <<>>
    /\ interrupts = 0
    /\ rd_err = "none"
    /\ result = "none"
    /\ rd_short = FALSE

\* no RollingChecksum is built by signature, delta or apply
RcIdle ==
    /\ rc_data = <<>>
    /\ rc_w = 0
    /\ rc_a = 0
    /\ rc_b = 0
    /\ rc_count = 0
    /\ rc_rolls = 0
    /\ rc_calls = 0
    /\ rc_hi = 0
    /\ rc_lo = 0
    /\ rc_pc = "idle"

\* no BuzHash is built by signature, delta or apply
BzIdle ==
    /\ bz_data = <<>>
    /\ bz_n = 0
    /\ bz_hash = <<>>
    /\ bz_window = <<>>
    /\ bz_pos = 0
    /\ bz_full = FALSE
    /\ bz_pc = "idle"

(***************************************************************************)
(* The byte source: a Cursor over a byte sequence.                         *)
(***************************************************************************)
\* read_exact_or_eof on a Cursor at position pos with a buffer of buf_len
\* bytes: Cursor::read returns min(requested, remaining) bytes, so the loop
\* fills the buffer or stops at the Ok(0) of the end of the data.
ReadExactOnly(data, pos, buf_len) ==
    IF pos + buf_len <= Len(data) THEN buf_len ELSE 0
ReadExactOrEof(data, pos, buf_len) ==
    Min(buf_len, IF pos < Len(data) THEN Len(data) - pos ELSE 0)

(***************************************************************************)
(* blake3::hash.  The digest is not computed: it is an injective function  *)
(* of the hashed bytes (the strong hash is collision-free), written as a   *)
(* tagged value so that a hash is never confused with a byte sequence.     *)
(***************************************************************************)
Blake3(chunk) == [blake3 |-> chunk]

(***************************************************************************)
(* DeltaOp                                                                 *)
(***************************************************************************)
Copy(i) == [kind |-> "Copy", index |-> i]
Insert(data) == [kind |-> "Insert", data |-> data]
IsCopy(op) == op.kind = "Copy"
IsInsert(op) == op.kind = "Insert"

(***************************************************************************)
(* signature_with_chunk_size                                               *)
(***************************************************************************)
SigBytesRead == ReadExactOrEof(base, sig_pos, chunk_size)

\* One iteration of the loop that reads a block and records it.
SignatureRead ==
    /\ pc = "signature"
    /\ SigBytesRead > 0
    /\ chunks' = Append(chunks,
                        [index |-> index,
                         hash |-> Blake3(Slice(base, sig_pos, sig_pos + SigBytesRead))])
    /\ index' = index + 1
    /\ sig_pos' = sig_pos + SigBytesRead
    /\ UNCHANGED <<base, target, chunk_size, pc, new_pos, ops, total_size,
                   pending_literal, dlt_chunk_size, op_i, old_pos, output>>
    /\ UNCHANGED <<iovars, rcvars, bzvars, seek_log>>

\* bytes_read == 0: break and return Ok(Signature { chunk_size, chunks });
\* the caller hands the signature to delta.
SignatureReturn ==
    /\ pc = "signature"
    /\ SigBytesRead = 0
    /\ pc' = "delta"
    /\ UNCHANGED <<base, target, chunk_size, sig_pos, chunks, index, new_pos, ops,
                   total_size, pending_literal, dlt_chunk_size, op_i, old_pos, output>>
    /\ UNCHANGED <<iovars, rcvars, bzvars, seek_log>>

(***************************************************************************)
(* delta                                                                   *)
(***************************************************************************)
\* hash_to_index: HashMap::extend over sig.chunks in order, so of several
\* chunks with one hash the last one's index is kept.
HashToIndexOneBased(cs) ==
    [h \in {cs[k].hash : k \in 1..Len(cs)} |->
        CHOOSE k \in 1..Len(cs) :
            /\ cs[k].hash = h
            /\ \A j \in 1..Len(cs) : cs[j].hash = h => j <= k]
HashToIndexNone(cs) == [h \in {} |-> 0]
HashToIndex(cs) ==
    [h \in {cs[k].hash : k \in 1..Len(cs)} |->
        cs[CHOOSE k \in 1..Len(cs) :
              /\ cs[k].hash = h
              /\ \A j \in 1..Len(cs) : cs[j].hash = h => j <= k].index]

\* batch_size: the largest multiple of chunk_size within TARGET_BATCH_SIZE,
\* or chunk_size itself when it is at least that large (size > 0).
BatchSizeFixed(size) == TARGET_BATCH_SIZE
BatchSize(size) ==
    IF size >= TARGET_BATCH_SIZE
    THEN size
    ELSE LET multiple == TARGET_BATCH_SIZE \div size
             s == multiple * size
         IN  IF s = 0 THEN size ELSE s

\* valid_buffer.chunks(size).len()
NumChunksExact(valid_buffer, size) == Len(valid_buffer) \div size
NumChunks(valid_buffer, size) == (Len(valid_buffer) + size - 1) \div size

\* the i-th item of valid_buffer.chunks(size), i counted from 0
ChunkAt(valid_buffer, size, i) ==
    Slice(valid_buffer, i * size, Min((i + 1) * size, Len(valid_buffer)))

\* the flush of pending_literal in front of a Copy and at the end of the stream:
\* an Insert is pushed only when there are pending bytes.
FlushAlways(the_ops, pending) == Append(the_ops, Insert(pending))
FlushLiteral(the_ops, pending) ==
    IF pending /= <<>> THEN Append(the_ops, Insert(pending)) ELSE the_ops

\* where the next literal run may start once chunk i has been matched
LiteralStartAtChunk(chunk_offset, chunk_len) == chunk_offset
LiteralStartAfter(chunk_offset, chunk_len) == chunk_offset + chunk_len

\* The body of `for (i, chunk) in valid_buffer.chunks(chunk_size).enumerate()`
\* for one chunk; st holds ops, pending_literal and literal_start.
ChunkStep(valid_buffer, size, hash_to_index, i, st) ==
    LET chunk == ChunkAt(valid_buffer, size, i)
        hash == Blake3(chunk)
    IN  IF hash \in DOMAIN hash_to_index
        THEN LET chunk_offset == i * size
                 pending == IF chunk_offset > st.literal_start
                            THEN st.pending_literal
                                 \o Slice(valid_buffer, st.literal_start, chunk_offset)
                            ELSE st.pending_literal
             IN  [ops |-> Append(FlushLiteral(st.ops, pending),
                                 Copy(hash_to_index[hash])),
                  pending_literal |-> <<>>,
                  literal_start |-> LiteralStartAfter(chunk_offset, Len(chunk))]
        ELSE st

\* The whole for loop: chunks i, i+1, ... of the batch, in order.
RECURSIVE ProcessChunks(_, _, _, _, _)
ProcessChunks(valid_buffer, size, hash_to_index, i, st) ==
    IF i >= NumChunks(valid_buffer, size)
    THEN st
    ELSE ProcessChunks(valid_buffer, size, hash_to_index, i + 1,
                       ChunkStep(valid_buffer, size, hash_to_index, i, st))

\* "Append remaining data in buffer to pending_literal"
AppendRemainingOnly(valid_buffer, st) ==
    IF st.literal_start < Len(valid_buffer)
    THEN Slice(valid_buffer, st.literal_start, Len(valid_buffer))
    ELSE <<>>
AppendRemaining(valid_buffer, st) ==
    IF st.literal_start < Len(valid_buffer)
    THEN st.pending_literal \o Slice(valid_buffer, st.literal_start, Len(valid_buffer))
    ELSE st.pending_literal

\* sig.chunk_size == 0: delta returns an empty Delta without reading.
DeltaZero ==
    /\ pc = "delta"
    /\ chunk_size = 0
    /\ ops' = <<>>
    /\ total_size' = 0
    /\ dlt_chunk_size' = 0
    /\ pc' = "apply"
    /\ UNCHANGED <<base, target, chunk_size, sig_pos, chunks, index, new_pos,
                   pending_literal, op_i, old_pos, output>>
    /\ UNCHANGED <<iovars, rcvars, bzvars, seek_log>>

DeltaBytesRead == ReadExactOrEof(target, new_pos, BatchSize(chunk_size))

\* total_size += bytes_read
TotalSizeBuffer(bytes_read) == total_size + BatchSize(chunk_size)
TotalSize(bytes_read) == total_size + bytes_read

\* What one iteration of delta's loop leaves in ops and pending_literal for the
\* batch valid_buffer: the matched chunks become Copies, each preceded by the
\* Insert of the bytes pending before it, and the unmatched rest of the batch
\* stays pending for the next iteration.
BatchFlushed(valid_buffer, size, hash_to_index, the_ops, pending) ==
    LET st == ProcessChunks(valid_buffer, size, hash_to_index, 0,
                            [ops |-> the_ops,
                             pending_literal |-> pending,
                             literal_start |-> 0])
    IN  [ops |-> FlushLiteral(st.ops, AppendRemaining(valid_buffer, st)),
         pending_literal |-> <<>>]
Batch(valid_buffer, size, hash_to_index, the_ops, pending) ==
    LET st == ProcessChunks(valid_buffer, size, hash_to_index, 0,
                            [ops |-> the_ops,
                             pending_literal |-> pending,
                             literal_start |-> 0])
    IN  [ops |-> st.ops,
         pending_literal |-> AppendRemaining(valid_buffer, st)]

\* One iteration of delta's loop: read a batch, match its chunks, keep the
\* unmatched rest pending.
DeltaBatch ==
    /\ pc = "delta"
    /\ chunk_size > 0
    /\ DeltaBytesRead > 0
    /\ LET valid_buffer == Slice(target, new_pos, new_pos + DeltaBytesRead)
           r == Batch(valid_buffer, chunk_size, HashToIndex(chunks), ops,
                      pending_literal)
       IN  /\ ops' = r.ops
           /\ pending_literal' = r.pending_literal
    /\ total_size' = TotalSize(DeltaBytesRead)
    /\ new_pos' = new_pos + DeltaBytesRead
    /\ UNCHANGED <<base, target, chunk_size, pc, sig_pos, chunks, index,
                   dlt_chunk_size, op_i, old_pos, output>>
    /\ UNCHANGED <<iovars, rcvars, bzvars, seek_log>>

\* bytes_read == 0: flush the remaining literal and return
\* Ok(Delta { chunk_size, ops, final_size: total_size }); the caller applies it.
DeltaReturn ==
    /\ pc = "delta"
    /\ chunk_size > 0
    /\ DeltaBytesRead = 0
    /\ ops' = FlushLiteral(ops, pending_literal)
    /\ dlt_chunk_size' = chunk_size
    /\ pc' = "apply"
    /\ UNCHANGED <<base, target, chunk_size, sig_pos, chunks, index, new_pos,
                   total_size, pending_literal, op_i, old_pos, output>>
    /\ UNCHANGED <<iovars, rcvars, bzvars, seek_log>>

(***************************************************************************)
(* apply / apply_to_vec                                                    *)
(***************************************************************************)
\* the byte offset a Copy seeks to
CopyOffset(i, size) == i * size

\* what DeltaOp::Copy(i) reads from the base: chunk_size bytes from its
\* offset, fewer at the end of the base
CopyBytesRead(i, size) == ReadExactOrEof(base, CopyOffset(i, size), size)

\* the op `for op in &dlt.ops` is at
CurrentOpReversed == ops[Len(ops) - op_i]
CurrentOp == ops[op_i + 1]

ApplyCopy ==
    /\ pc = "apply"
    /\ op_i < Len(ops)
    /\ IsCopy(CurrentOp)
    /\ LET offset == CopyOffset(CurrentOp.index, dlt_chunk_size)
           bytes_read == CopyBytesRead(CurrentOp.index, dlt_chunk_size)
       IN  /\ seek_log' = Append(seek_log, [from |-> old_pos, to |-> offset])
           /\ output' = output \o Slice(base, offset, offset + bytes_read)
           /\ old_pos' = offset + bytes_read
    /\ op_i' = op_i + 1
    /\ UNCHANGED <<base, target, chunk_size, pc, sig_pos, chunks, index, new_pos,
                   ops, total_size, pending_literal, dlt_chunk_size>>
    /\ UNCHANGED <<iovars, rcvars, bzvars>>

ApplyInsert ==
    /\ pc = "apply"
    /\ op_i < Len(ops)
    /\ IsInsert(CurrentOp)
    /\ output' = output \o CurrentOp.data
    /\ op_i' = op_i + 1
    /\ UNCHANGED <<base, target, chunk_size, pc, sig_pos, chunks, index, new_pos,
                   ops, total_size, pending_literal, dlt_chunk_size, old_pos>>
    /\ UNCHANGED <<iovars, rcvars, bzvars, seek_log>>

\* every op applied: flush and return Ok
ApplyReturn ==
    /\ pc = "apply"
    /\ op_i = Len(ops)
    /\ pc' = "done"
    /\ UNCHANGED <<base, target, chunk_size, sig_pos, chunks, index, new_pos, ops,
                   total_size, pending_literal, dlt_chunk_size, op_i, old_pos, output>>
    /\ UNCHANGED <<iovars, rcvars, bzvars, seek_log>>

\* The state in which signature_with_chunk_size is entered.
Start ==
    /\ pc = "signature"
    /\ sig_pos = 0
    /\ chunks = <<>>
    /\ index = 0
    /\ new_pos = 0
    /\ ops = <<>>
    /\ total_size = 0
    /\ pending_literal = <<>>
    /\ dlt_chunk_size = 0
    /\ op_i = 0
    /\ old_pos = 0
    /\ output = <<>>
    /\ IoIdle
    /\ RcIdle
    /\ BzIdle
    /\ seek_log = <<>>

\* Any base, any target, any chunk size.
Init ==
    /\ base \in SeqsUpTo(Bytes, MaxBaseLen)
    /\ target \in SeqsUpTo(Bytes, MaxTargetLen)
    /\ chunk_size \in 0..MaxChunkSize
    /\ Start

\* data without its k-th block of size bytes (k counted from 0), as
\* modified.drain(block_size * k..block_size * (k + 1)) leaves it
RemoveBlock(data, size, k) ==
    Slice(data, 0, k * size) \o Slice(data, Min((k + 1) * size, Len(data)), Len(data))

\* The edits of tests/basic_tests.rs: the target is the base unchanged
\* (test_adjacent_copy_compression), the base behind one more byte (as in
\* test_1mb_with_prepended_byte_rolling_checksum), or the base with one of its
\* blocks removed (test_entire_block_removed).
Edits(data, size) ==
    {data}
    \cup {<<b>> \o data : b \in Bytes}
    \cup (IF size > 0
          THEN {RemoveBlock(data, size, k) : k \in 0..(NumChunks(data, size) - 1)}
          ELSE {})

\* A longer base and a target that is an edit of it.
InitEdit ==
    /\ base \in SeqsUpTo(Bytes, MaxEditBaseLen)
    /\ chunk_size \in 0..MaxChunkSize
    /\ target \in Edits(base, chunk_size)
    /\ Start

Next ==
    \/ SignatureRead
    \/ SignatureReturn
    \/ DeltaZero
    \/ DeltaBatch
    \/ DeltaReturn
    \/ ApplyCopy
    \/ ApplyInsert
    \/ ApplyReturn

Spec == Init /\ [][Next]_vars

SpecEdit == InitEdit /\ [][Next]_vars

(***************************************************************************)
(* apply on any Delta, not only one that delta built.                      *)
(***************************************************************************)
\* payloads of the Inserts of the Deltas handed to apply
InsertPayloads == {<<0>>, <<1, 0>>}

DeltaOps ==
    {Copy(i) : i \in 0..MaxCopyIndex} \cup {Insert(d) : d \in InsertPayloads}

\* apply(Cursor(base), &dlt, &mut output) is entered with any Delta.
InitApply ==
    /\ base \in SeqsUpTo(Bytes, MaxApplyBaseLen)
    /\ dlt_chunk_size \in 0..MaxChunkSize
    /\ ops \in SeqsUpTo(DeltaOps, MaxOps)
    /\ chunk_size = dlt_chunk_size
    /\ target = <<>>
    /\ pc = "apply"
    /\ sig_pos = 0
    /\ chunks = <<>>
    /\ index = 0
    /\ new_pos = 0
    /\ total_size = 0
    /\ pending_literal = <<>>
    /\ op_i = 0
    /\ old_pos = 0
    /\ output = <<>>
    /\ IoIdle
    /\ RcIdle
    /\ BzIdle
    /\ seek_log = <<>>

NextApply ==
    \/ ApplyCopy
    \/ ApplyInsert
    \/ ApplyReturn

SpecApply == InitApply /\ [][NextApply]_vars

(***************************************************************************)
(* signature, delta and apply over any reader (R: Read): a read may return *)
(* fewer bytes than asked for, or an error.  One action per answer of the  *)
(* reader inside read_exact_or_eof, one per loop iteration or return of    *)
(* the function that called it.                                            *)
(***************************************************************************)
\* io::ErrorKind of the errors the reader returns (a sample)
ErrorKinds == {"Interrupted", "BrokenPipe", "TimedOut"}

\* read_exact_or_eof: Err(e) if e.kind() == io::ErrorKind::Interrupted => {}
\* goes round the loop again; any other Err(e) => return Err(e)
IsRetriedAll(kind) == TRUE
IsRetriedNone(kind) == FALSE
IsRetried(kind) == kind = "Interrupted"

\* the running function is inside a call of read_exact_or_eof
Reading ==
    /\ result = "none"
    /\ \/ pc = "signature"
       \/ pc = "delta" /\ chunk_size > 0
       \/ pc = "apply" /\ op_i < Len(ops) /\ IsCopy(CurrentOp)

\* the data behind the reader of that call, the position of the reader when
\* the call began, and the length of the buffer to fill
RdData == IF pc = "delta" THEN target ELSE base
RdPos ==
    CASE pc = "signature" -> sig_pos
      [] pc = "delta" -> new_pos
      [] OTHER -> CopyOffset(CurrentOp.index, dlt_chunk_size)
RdBufLen ==
    CASE pc = "signature" -> chunk_size
      [] pc = "delta" -> BatchSize(chunk_size)
      [] OTHER -> dlt_chunk_size

\* the bytes between the reader's position and the end of its data
RdRemaining ==
    IF RdPos + Len(rd_buf) < Len(RdData)
    THEN Len(RdData) - (RdPos + Len(rd_buf))
    ELSE 0

\* reader.read(&mut buf[total..]) returns Ok(n), n > 0: the next n bytes of
\* the data are in the buffer and total += n
IoReadOk ==
    /\ Reading
    /\ Len(rd_buf) < RdBufLen
    /\ \E n \in 1..Min(RdBufLen - Len(rd_buf), RdRemaining) :
           /\ rd_buf' = rd_buf \o Slice(RdData, RdPos + Len(rd_buf),
                                        RdPos + Len(rd_buf) + n)
           /\ rd_short' = (rd_short
                           \/ n < Min(RdBufLen - Len(rd_buf), RdRemaining))
    /\ UNCHANGED <<base, target, chunk_size, pc, sig_pos, chunks, index, new_pos,
                   ops, total_size, pending_literal, dlt_chunk_size, op_i,
                   old_pos, output>>
    /\ UNCHANGED <<interrupts, rd_err, result, rcvars, bzvars, seek_log>>

\* reader.read(&mut buf[total..]) returns Err(e): read_exact_or_eof retries
\* or returns Err(e), and each caller returns it with `?`
IoReadErr ==
    /\ Reading
    /\ Len(rd_buf) < RdBufLen
    /\ \E kind \in ErrorKinds :
           /\ kind = "Interrupted" => interrupts < MaxInterrupts
           /\ interrupts' = IF kind = "Interrupted" THEN interrupts + 1 ELSE interrupts
           /\ rd_err' = kind
           /\ result' = IF IsRetried(kind) THEN result ELSE kind
    /\ UNCHANGED <<base, target, chunk_size, pc, sig_pos, chunks, index, new_pos,
                   ops, total_size, pending_literal, dlt_chunk_size, op_i,
                   old_pos, output>>
    /\ UNCHANGED <<rd_buf, rd_short, rcvars, bzvars, seek_log>>

\* read_exact_or_eof returns Ok(total): the buffer is full, or the reader
\* answered Ok(0) at the end of its data
RdDoneShort ==
    /\ Reading
    /\ Len(rd_buf) > 0 \/ RdRemaining = 0
RdDoneFull ==
    /\ Reading
    /\ Len(rd_buf) = RdBufLen
RdDone ==
    /\ Reading
    /\ Len(rd_buf) = RdBufLen \/ RdRemaining = 0

IoSignatureRead ==
    /\ pc = "signature"
    /\ RdDone
    /\ Len(rd_buf) > 0
    /\ chunks' = Append(chunks, [index |-> index, hash |-> Blake3(rd_buf)])
    /\ index' = index + 1
    /\ sig_pos' = sig_pos + Len(rd_buf)
    /\ rd_buf' = <<>>
    /\ UNCHANGED <<base, target, chunk_size, pc, new_pos, ops, total_size,
                   pending_literal, dlt_chunk_size, op_i, old_pos, output>>
    /\ UNCHANGED <<interrupts, rd_err, result, rd_short, rcvars, bzvars,
                   seek_log>>

IoSignatureReturn ==
    /\ pc = "signature"
    /\ RdDone
    /\ Len(rd_buf) = 0
    /\ pc' = "delta"
    /\ UNCHANGED <<base, target, chunk_size, sig_pos, chunks, index, new_pos, ops,
                   total_size, pending_literal, dlt_chunk_size, op_i, old_pos, output>>
    /\ UNCHANGED <<iovars, rcvars, bzvars, seek_log>>

IoDeltaBatch ==
    /\ pc = "delta"
    /\ RdDone
    /\ Len(rd_buf) > 0
    /\ LET r == Batch(rd_buf, chunk_size, HashToIndex(chunks), ops, pending_literal)
       IN  /\ ops' = r.ops
           /\ pending_literal' = r.pending_literal
    /\ total_size' = TotalSize(Len(rd_buf))
    /\ new_pos' = new_pos + Len(rd_buf)
    /\ rd_buf' = <<>>
    /\ UNCHANGED <<base, target, chunk_size, pc, sig_pos, chunks, index,
                   dlt_chunk_size, op_i, old_pos, output>>
    /\ UNCHANGED <<interrupts, rd_err, result, rd_short, rcvars, bzvars,
                   seek_log>>

IoDeltaReturn ==
    /\ pc = "delta"
    /\ RdDone
    /\ Len(rd_buf) = 0
    /\ ops' = FlushLiteral(ops, pending_literal)
    /\ dlt_chunk_size' = chunk_size
    /\ pc' = "apply"
    /\ UNCHANGED <<base, target, chunk_size, sig_pos, chunks, index, new_pos,
                   total_size, pending_literal, op_i, old_pos, output>>
    /\ UNCHANGED <<iovars, rcvars, bzvars, seek_log>>

IoApplyCopy ==
    /\ pc = "apply"
    /\ RdDone
    /\ seek_log' = Append(seek_log, [from |-> old_pos, to |-> RdPos])
    /\ output' = output \o rd_buf
    /\ old_pos' = RdPos + Len(rd_buf)
    /\ op_i' = op_i + 1
    /\ rd_buf' = <<>>
    /\ UNCHANGED <<base, target, chunk_size, pc, sig_pos, chunks, index, new_pos,
                   ops, total_size, pending_literal, dlt_chunk_size>>
    /\ UNCHANGED <<interrupts, rd_err, result, rd_short, rcvars, bzvars>>

\* Any base, any target, any chunk size, behind readers that may fail.
InitIo ==
    /\ base \in SeqsUpTo(Bytes, MaxIoBaseLen)
    /\ target \in SeqsUpTo(Bytes, MaxIoTargetLen)
    /\ chunk_size \in 0..MaxChunkSize
    /\ Start

NextIo ==
    \/ IoReadOk
    \/ IoReadErr
    \/ IoSignatureRead
    \/ IoSignatureReturn
    \/ DeltaZero
    \/ IoDeltaBatch
    \/ IoDeltaReturn
    \/ IoApplyCopy
    \/ ApplyInsert
    \/ ApplyReturn

SpecIo == InitIo /\ [][NextIo]_vars

\* The same readers under fairness: signature and delta over any streams,
\* of up to MaxFairLen bytes, or apply over any Delta of up to MaxFairOps
\* commands.  The reader may
\* answer Interrupted and may fail, but it is not assumed to: a step other
\* than an Err answer is taken in the end, so the reader does not answer
\* Interrupted for ever and a function that can go on does.
InitFairIo ==
    \/ InitIo /\ Len(base) <= MaxFairLen /\ Len(target) <= MaxFairLen
    \/ InitApply /\ Len(ops) <= MaxFairOps

Answered ==
    \/ IoReadOk
    \/ IoSignatureRead
    \/ IoSignatureReturn
    \/ DeltaZero
    \/ IoDeltaBatch
    \/ IoDeltaReturn
    \/ IoApplyCopy
    \/ ApplyInsert
    \/ ApplyReturn

FairSpecIo == InitFairIo /\ [][NextIo]_vars /\ WF_vars(Answered)

(***************************************************************************)
(* RollingChecksum (src/src/rolling.rs).                                   *)
(***************************************************************************)
\* The byte values the checksummed streams are drawn from (a sample of u8,
\* every one below MOD as 255 is below 65521).
RollBytes == {0, 1, 12}

MaxByte == CHOOSE m \in RollBytes : \A x \in RollBytes : x <= m

ChunkSizeDouble == 2 * NMAX
CHUNK_SIZE == (NMAX \div BLOCK_SIZE) * BLOCK_SIZE

\* position 0 gets weight BLOCK_SIZE, the last position gets weight 1
WeightsAscending == [i \in 1..BLOCK_SIZE |-> i]
WEIGHTS == [i \in 1..BLOCK_SIZE |-> BLOCK_SIZE - i + 1]

\* The word of the arithmetic.  NMAX is the largest n for which b cannot
\* exceed a u32 before it is reduced: 255*n*(n+1)/2 + (n+1)*(MOD-1) < 2^32,
\* and MOD is below 2^16, the half word of value().  The scaled word keeps
\* both relations: HALF is the power of two above MOD - 1, U32 the power of
\* two from HALF * HALF on that is above the largest b of a chunk.
WorstB == (NMAX + 1) * (MOD - 1) + MaxByte * ((NMAX * (NMAX + 1)) \div 2)

RECURSIVE PowerOfTwoAbove(_, _)
PowerOfTwoAbove(p, x) == IF p > x THEN p ELSE PowerOfTwoAbove(2 * p, x)

HALF == PowerOfTwoAbove(1, MOD - 1)
U32 == PowerOfTwoAbove(HALF * HALF, WorstB)

\* u32 arithmetic that wraps (a release build)
Wrap(x) == x % U32

\* value(): (b << 16) | a.  a is below MOD, so the or adds.
Value(a, b) == Wrap(b * HALF) + a

RECURSIVE ReduceSum(_)
ReduceSum(v) == IF v = <<>> THEN 0 ELSE Head(v) + ReduceSum(Tail(v))

\* let mut p = *a * block_count
PrefixInitZero(a, block_count) == 0
PrefixInit(a, block_count) == a * block_count

\* the largest and the smallest of a set of intermediate results
Largest(S) == CHOOSE m \in S : \A x \in S : x <= m
Smallest(S) == CHOOSE m \in S : \A x \in S : m <= x

\* process_chunk: the loop over the whole blocks of the chunk.  hi is the
\* largest result of an operation so far, before it is cut to the word.
RECURSIVE BlockLoop(_, _)
BlockLoop(blocks, st) ==
    IF blocks = <<>>
    THEN st
    ELSE LET v32 == SubSeq(blocks, 1, BLOCK_SIZE)
             sum_a == ReduceSum(st.a_vec)
             p1 == st.p + sum_a
             a_vec1 == [i \in 1..BLOCK_SIZE |-> st.a_vec[i] + v32[i]]
             weighted == [i \in 1..BLOCK_SIZE |-> v32[i] * WEIGHTS[i]]
             sum_w == ReduceSum(weighted)
             b1 == st.b_acc + sum_w
         IN  BlockLoop(SubSeq(blocks, BLOCK_SIZE + 1, Len(blocks)),
                       [p |-> Wrap(p1),
                        a_vec |-> a_vec1,
                        b_acc |-> Wrap(b1),
                        hi |-> Largest({st.hi, sum_a, p1, sum_w, b1}
                                       \cup {a_vec1[i] : i \in 1..BLOCK_SIZE}
                                       \cup {weighted[i] : i \in 1..BLOCK_SIZE})])

\* process_chunk: the scalar tail over the bytes after the last whole block
ScalarTailFlat(st, remainder) ==
    [a |-> Wrap(st.a + ReduceSum(remainder)), b |-> st.b, hi |-> st.hi]
RECURSIVE ScalarTail(_, _)
ScalarTail(st, remainder) ==
    IF remainder = <<>>
    THEN st
    ELSE LET a1 == st.a + Head(remainder)
             b1 == st.b + Wrap(a1)
         IN  ScalarTail([a |-> Wrap(a1), b |-> Wrap(b1),
                         hi |-> Largest({st.hi, a1, b1})],
                        Tail(remainder))

ProcessChunk(a, b, data) ==
    LET block_count == Len(data) \div BLOCK_SIZE
        p0 == PrefixInit(a, block_count)
        st == BlockLoop(SubSeq(data, 1, block_count * BLOCK_SIZE),
                        [p |-> Wrap(p0),
                         a_vec |-> [i \in 1..BLOCK_SIZE |-> 0],
                         b_acc |-> b,
                         hi |-> p0])
        sum_a == ReduceSum(st.a_vec)
        a1 == a + sum_a
        pb == st.p * BLOCK_SIZE
        b1 == st.b_acc + Wrap(pb)
    IN  ScalarTail([a |-> Wrap(a1), b |-> Wrap(b1),
                    hi |-> Largest({st.hi, sum_a, a1, pb, b1})],
                   SubSeq(data, block_count * BLOCK_SIZE + 1, Len(data)))

\* update: for chunk in data.chunks(CHUNK_SIZE), reduced once per chunk
RECURSIVE UpdateFrom(_, _, _, _)
UpdateFrom(a, b, hi, data) ==
    IF data = <<>>
    THEN [a |-> a, b |-> b, hi |-> hi]
    ELSE LET n == Min(CHUNK_SIZE, Len(data))
             r == ProcessChunk(a, b, SubSeq(data, 1, n))
         IN  UpdateFrom(r.a % MOD, r.b % MOD, Largest({hi, r.hi}),
                        SubSeq(data, n + 1, Len(data)))

Update(a, b, data) == UpdateFrom(a, b, 0, data)

\* RollingChecksum::compute
Compute(data) ==
    LET r == Update(1, 0, data)
    IN  Value(r.a, r.b)

\* the window of rc_w bytes that begins i bytes into the stream
Window(i) == SubSeq(rc_data, i + 1, i + rc_w)

\* roll: the arithmetic of one call, with every intermediate result
RollAUnreduced(a, old, new) == a + MOD - old + new
RollA(a, old, new) == (a + MOD - old + new) % MOD

Roll(a, b, old, new, n) ==
    LET a1 == RollA(a, old, new)
        m == n * old
        x == Wrap(m) % MOD
    IN  [a |-> a1,
         b |-> (b + MOD + a1 - 1 - x) % MOD,
         hi |-> Largest({a + MOD, a + MOD - old + new, m, b + MOD,
                         b + MOD + a1}),
         lo |-> Smallest({a + MOD - old, b + MOD + a1 - 1,
                          b + MOD + a1 - 1 - x})]

\* checksum.update(&data[..w]) on a new checksum
RcUpdate ==
    /\ rc_pc = "new"
    /\ LET r == Update(rc_a, rc_b, Window(0))
       IN  /\ rc_a' = r.a
           /\ rc_b' = r.b
           /\ rc_hi' = r.hi
    /\ rc_lo' = 0
    /\ rc_count' = rc_count + rc_w
    /\ rc_calls' = rc_calls + 1
    /\ rc_pc' = "updated"
    /\ UNCHANGED <<base, target, chunk_size, pc, sig_pos, chunks, index, new_pos,
                   ops, total_size, pending_literal, dlt_chunk_size, op_i,
                   old_pos, output>>
    /\ UNCHANGED <<iovars, rc_data, rc_w, rc_rolls>>
    /\ UNCHANGED <<bzvars, seek_log>>

\* checksum.roll(data[i], data[i + w], w).  n * old is a u32 product: where
\* it overflows, a debug build panics and a release build wraps.
RcRoll ==
    /\ rc_pc \in {"updated", "rolled"}
    /\ rc_w >= 1
    /\ rc_rolls + rc_w < Len(rc_data)
    /\ LET old == rc_data[rc_rolls + 1]
           new == rc_data[rc_rolls + rc_w + 1]
           n == Wrap(rc_w)
           r == Roll(rc_a, rc_b, old, new, n)
       IN  /\ rc_a' = r.a
           /\ rc_hi' = r.hi
           /\ rc_lo' = r.lo
           /\ \/ /\ rc_b' = r.b
                 /\ rc_pc' = "rolled"
              \/ /\ n * old >= U32
                 /\ rc_b' = rc_b
                 /\ rc_pc' = "panic"
    /\ rc_rolls' = rc_rolls + 1
    /\ UNCHANGED <<base, target, chunk_size, pc, sig_pos, chunks, index, new_pos,
                   ops, total_size, pending_literal, dlt_chunk_size, op_i,
                   old_pos, output>>
    /\ UNCHANGED <<iovars, rc_data, rc_w, rc_count, rc_calls>>
    /\ UNCHANGED <<bzvars, seek_log>>

\* the shortest window whose product with a byte overflows the word
OverflowWindow ==
    CHOOSE n \in 1..U32 : n * MaxByte >= U32 /\ (n - 1) * MaxByte < U32

\* streams long enough for such a window: one byte value repeated
LongData ==
    {[k \in 1..(OverflowWindow + LongRolls) |-> c] : c \in RollBytes}

\* RollingChecksum::new() over any stream and any window of it
InitRolling ==
    /\ rc_data \in SeqsUpTo(RollBytes, MaxRollLen) \cup LongData
    /\ rc_w \in 0..Len(rc_data)
    /\ rc_a = 1
    /\ rc_b = 0
    /\ rc_count = 0
    /\ rc_rolls = 0
    /\ rc_calls = 0
    /\ rc_hi = 0
    /\ rc_lo = 0
    /\ rc_pc = "new"
    /\ base = <<>>
    /\ target = <<>>
    /\ chunk_size = 0
    /\ pc = "done"
    /\ sig_pos = 0
    /\ chunks = <<>>
    /\ index = 0
    /\ new_pos = 0
    /\ ops = <<>>
    /\ total_size = 0
    /\ pending_literal = <<>>
    /\ dlt_chunk_size = 0
    /\ op_i = 0
    /\ old_pos = 0
    /\ output = <<>>
    /\ IoIdle
    /\ BzIdle
    /\ seek_log = <<>>

NextRolling ==
    \/ RcUpdate
    \/ RcRoll

SpecRolling == InitRolling /\ [][NextRolling]_vars

(***************************************************************************)
(* RollingChecksum under any sequence of calls.                            *)
(***************************************************************************)
\* The largest window_size of roll that is considered: 2^24, the word over
\* the power of two above a byte.
MaxWindow == U32 \div PowerOfTwoAbove(1, MaxByte)

\* the slices and the windows of a sequence of calls: one byte value
\* repeated, up to one byte more than NMAX, and the small and the largest
\* windows
CallSlices ==
    {[k \in 1..n |-> c] : n \in 0..(NMAX + 1), c \in RollBytes}
CallWindows == (1..MaxSmallWindow) \cup {MaxWindow}

\* the pipeline is not running
PipelineIdle ==
    /\ base = <<>>
    /\ target = <<>>
    /\ chunk_size = 0
    /\ pc = "done"
    /\ sig_pos = 0
    /\ chunks = <<>>
    /\ index = 0
    /\ new_pos = 0
    /\ ops = <<>>
    /\ total_size = 0
    /\ pending_literal = <<>>
    /\ dlt_chunk_size = 0
    /\ op_i = 0
    /\ old_pos = 0
    /\ output = <<>>
    /\ IoIdle
    /\ seek_log = <<>>

\* a RollingChecksum call leaves the pipeline alone
PipelineUnchanged ==
    UNCHANGED <<base, target, chunk_size, pc, sig_pos, chunks, index, new_pos,
                ops, total_size, pending_literal, dlt_chunk_size, op_i,
                old_pos, output, iovars, bzvars, seek_log>>

\* checksum.update(data) for one of the slices
CallUpdate(slices) ==
    /\ \E data \in slices :
          LET r == Update(rc_a, rc_b, data)
          IN  /\ rc_a' = r.a
              /\ rc_b' = r.b
              /\ rc_hi' = r.hi
              /\ rc_count' = rc_count + Len(data)
    /\ rc_lo' = 0
    /\ rc_calls' = rc_calls + 1
    /\ rc_pc' = "updated"
    /\ UNCHANGED <<rc_data, rc_rolls>>
    /\ PipelineUnchanged

\* checksum.roll(old, new, n) for bytes and a window_size of the sets
CallRoll(bytes, windows) ==
    /\ \E old \in bytes, new \in bytes, n \in windows :
          LET r == Roll(rc_a, rc_b, old, new, Wrap(n))
          IN  /\ rc_a' = r.a
              /\ rc_b' = r.b
              /\ rc_hi' = r.hi
              /\ rc_lo' = r.lo
              /\ rc_w' = n
    /\ rc_rolls' = rc_rolls + 1
    /\ rc_pc' = "rolled"
    /\ UNCHANGED <<rc_data, rc_count, rc_calls>>
    /\ PipelineUnchanged

\* RollingChecksum::new()
NewChecksum ==
    /\ rc_a = 1
    /\ rc_b = 0
    /\ rc_count = 0
    /\ rc_rolls = 0
    /\ rc_calls = 0
    /\ rc_hi = 0
    /\ rc_lo = 0
    /\ rc_pc = "new"

InitCalls ==
    /\ rc_data = <<>>
    /\ rc_w = 0
    /\ NewChecksum
    /\ PipelineIdle
    /\ BzIdle

\* the checksum is replaced by a new one
RcNew ==
    /\ rc_pc \in {"updated", "rolled"}
    /\ rc_w' = 0
    /\ rc_a' = 1
    /\ rc_b' = 0
    /\ rc_count' = 0
    /\ rc_rolls' = 0
    /\ rc_calls' = 0
    /\ rc_hi' = 0
    /\ rc_lo' = 0
    /\ rc_pc' = "new"
    /\ UNCHANGED rc_data
    /\ PipelineUnchanged

RcUpdateAny ==
    /\ rc_pc \in {"new", "updated", "rolled"}
    /\ rc_calls + rc_rolls < MaxCallSeq
    /\ UNCHANGED rc_w
    /\ CallUpdate(CallSlices)

RcRollAny ==
    /\ rc_pc \in {"new", "updated", "rolled"}
    /\ rc_calls + rc_rolls < MaxCallSeq
    /\ CallRoll(RollBytes, CallWindows)

NextCalls ==
    \/ RcNew
    \/ RcUpdateAny
    \/ RcRollAny

SpecCalls == InitCalls /\ [][NextCalls]_vars

(***************************************************************************)
(* One call on any state with reduced halves.                              *)
(***************************************************************************)
InitWord ==
    /\ rc_data = <<>>
    /\ rc_w = 0
    /\ rc_a \in 0..(MOD - 1)
    /\ rc_b \in 0..(MOD - 1)
    /\ rc_count = 0
    /\ rc_rolls = 0
    /\ rc_calls = 0
    /\ rc_hi = 0
    /\ rc_lo = 0
    /\ rc_pc = "given"
    /\ PipelineIdle
    /\ BzIdle

WordUpdate ==
    /\ rc_pc = "given"
    /\ UNCHANGED rc_w
    /\ CallUpdate(SeqsUpTo(RollBytes, NMAX + 1))

WordRoll ==
    /\ rc_pc = "given"
    /\ CallRoll(RollBytes, 1..MaxWindow)

NextWord ==
    \/ WordUpdate
    \/ WordRoll

SpecWord == InitWord /\ [][NextWord]_vars

(***************************************************************************)
(* A byte sequence fed to update in consecutive slices.                    *)
(***************************************************************************)
InitSplit ==
    /\ rc_data \in SeqsUpTo(RollBytes, MaxSplitLen)
    /\ rc_w = 0
    /\ NewChecksum
    /\ PipelineIdle
    /\ BzIdle

\* the bytes of the sequence that have been fed, and the slices that can
\* follow them, the empty one included
Fed == SubSeq(rc_data, 1, rc_count)
NextSlices ==
    {SubSeq(rc_data, rc_count + 1, rc_count + k) :
        k \in 0..(Len(rc_data) - rc_count)}

RcUpdateNext ==
    /\ rc_pc \in {"new", "updated"}
    /\ rc_calls < MaxSplits
    /\ UNCHANGED rc_w
    /\ CallUpdate(NextSlices)

NextSplit == RcUpdateNext

SpecSplit == InitSplit /\ [][NextSplit]_vars

(***************************************************************************)
(* u64 arithmetic of src/src/buzhash.rs.  A u64 is the tuple of its eight  *)
(* bytes, least significant first, so that every operation is exact.       *)
(***************************************************************************)
\* the width of BuzHash.hash
BITS == 64


\* the u64 written as four groups of four hex digits, most significant first
U64(g) == <<g[4] % 256, g[4] \div 256, g[3] % 256, g[3] \div 256,
            g[2] % 256, g[2] \div 256, g[1] % 256, g[1] \div 256>>

Limb(x, i) == IF i \in 1..8 THEN x[i] ELSE 0

\* a ^ b on bytes
RECURSIVE XorInt(_, _)
XorInt(a, b) ==
    IF a = 0 THEN b
    ELSE IF b = 0 THEN a
    ELSE ((a + b) % 2) + 2 * XorInt(a \div 2, b \div 2)

Xor(x, y) == LET F(i) == XorInt(x[i], y[i]) IN <<F(1), F(2), F(3), F(4), F(5), F(6), F(7), F(8)>>

\* x >> k and x << k, 0 <= k <= BITS
Shr(x, k) ==
    LET q == k \div 8
        r == k % 8
        F(i) == (Limb(x, i + q) \div (2 ^ r))
                + (Limb(x, i + q + 1) % (2 ^ r)) * (2 ^ (8 - r))
    IN  <<F(1), F(2), F(3), F(4), F(5), F(6), F(7), F(8)>>

Shl(x, k) ==
    LET q == k \div 8
        r == k % 8
        F(i) == ((Limb(x, i - q) * (2 ^ r)) % 256)
                + (Limb(x, i - q - 1) \div (2 ^ (8 - r)))
    IN  <<F(1), F(2), F(3), F(4), F(5), F(6), F(7), F(8)>>

\* u64::rotate_left: the rotation is taken modulo the width
RotateLeft(x, k) ==
    LET hi == Shl(x, k % BITS)
        lo == Shr(x, BITS - (k % BITS))
        F(i) == hi[i] + lo[i]
    IN  <<F(1), F(2), F(3), F(4), F(5), F(6), F(7), F(8)>>

\* u64::wrapping_mul: the byte products of column k (counted from 0), summed
\* and carried; what is carried out of the eighth byte is dropped
RECURSIVE Column(_, _, _, _)
Column(x, y, k, i) ==
    IF i > k THEN 0 ELSE x[i + 1] * y[k - i + 1] + Column(x, y, k, i + 1)

RECURSIVE MulCarry(_, _, _, _)
MulCarry(x, y, k, carry) ==
    IF k = 8
    THEN <<>>
    ELSE LET sum == Column(x, y, k, 0) + carry
         IN  <<sum % 256>> \o MulCarry(x, y, k + 1, sum \div 256)

WrappingMul(x, y) == MulCarry(x, y, 0, 0)

\* BuzHash::map_byte:
\*   x = byte ^ 0x9E37_79B9_7F4A_7C15
\*   x = (x ^ (x >> 30)).wrapping_mul(0xbf58_476d_1ce4_e5b9)
\*   x = (x ^ (x >> 27)).wrapping_mul(0x94d0_49bb_1331_11eb)
\*   x ^ (x >> 31)
\* (40503 = 0x9E37, 31161 = 0x79B9, 32586 = 0x7F4A, 31765 = 0x7C15, ...)
MapByte(byte) ==
    LET x0 == Xor(U64(<<0, 0, 0, byte>>), U64(<<40503, 31161, 32586, 31765>>))
        x1 == WrappingMul(Xor(x0, Shr(x0, 30)), U64(<<48984, 18285, 7396, 58809>>))
        x2 == WrappingMul(Xor(x1, Shr(x1, 27)), U64(<<38096, 18875, 4913, 4587>>))
    IN  Xor(x2, Shr(x2, 31))

\* map_byte of each byte value of the streams, computed once
MapByteOf == [byte \in Bytes |-> MapByte(byte)]

\* hash = hash.rotate_left(1); hash ^= map_byte(byte)
HashStep(hash, byte) == Xor(RotateLeft(hash, 1), MapByteOf[byte])

\* BuzHash::hash_slice / hash64 / LightweightHash::new
IsU64(x) == Len(x) = 8 /\ \A i \in 1..8 : x[i] \in 0..255

\* the loop `for &byte in data`; every value of hash on the way is a u64
RECURSIVE HashFrom(_, _)
HashFrom(hash, data) ==
    IF data = <<>> \/ ~IsU64(hash)
    THEN hash
    ELSE HashFrom(HashStep(hash, Head(data)), Tail(data))

HashSlice(data) == HashFrom(U64(<<0, 0, 0, 0>>), data)

(***************************************************************************)
(* lightweight_signature_with_chunk_size and lightweight_delta: the loops  *)
(* of signature_with_chunk_size and delta with LightweightHash::new in the *)
(* place of blake3::hash.  apply is the one of lib.rs.                     *)
(***************************************************************************)
LwSignatureRead ==
    /\ pc = "signature"
    /\ SigBytesRead > 0
    /\ chunks' = Append(chunks,
                        [index |-> index,
                         hash |-> HashSlice(Slice(base, sig_pos, sig_pos + SigBytesRead))])
    /\ index' = index + 1
    /\ sig_pos' = sig_pos + SigBytesRead
    /\ UNCHANGED <<base, target, chunk_size, pc, new_pos, ops, total_size,
                   pending_literal, dlt_chunk_size, op_i, old_pos, output>>
    /\ UNCHANGED <<iovars, rcvars, bzvars, seek_log>>

LwChunkStep(valid_buffer, size, hash_to_index, i, st) ==
    LET chunk == ChunkAt(valid_buffer, size, i)
        hash == HashSlice(chunk)
    IN  IF hash \in DOMAIN hash_to_index
        THEN LET chunk_offset == i * size
                 pending == IF chunk_offset > st.literal_start
                            THEN st.pending_literal
                                 \o Slice(valid_buffer, st.literal_start, chunk_offset)
                            ELSE st.pending_literal
             IN  [ops |-> Append(FlushLiteral(st.ops, pending),
                                 Copy(hash_to_index[hash])),
                  pending_literal |-> <<>>,
                  literal_start |-> LiteralStartAfter(chunk_offset, Len(chunk))]
        ELSE st

RECURSIVE LwProcessChunks(_, _, _, _, _)
LwProcessChunks(valid_buffer, size, hash_to_index, i, st) ==
    IF i >= NumChunks(valid_buffer, size)
    THEN st
    ELSE LwProcessChunks(valid_buffer, size, hash_to_index, i + 1,
                         LwChunkStep(valid_buffer, size, hash_to_index, i, st))

LwBatch(valid_buffer, size, hash_to_index, the_ops, pending) ==
    LET st == LwProcessChunks(valid_buffer, size, hash_to_index, 0,
                              [ops |-> the_ops,
                               pending_literal |-> pending,
                               literal_start |-> 0])
    IN  [ops |-> st.ops,
         pending_literal |-> AppendRemaining(valid_buffer, st)]

LwDeltaBatch ==
    /\ pc = "delta"
    /\ chunk_size > 0
    /\ DeltaBytesRead > 0
    /\ LET valid_buffer == Slice(target, new_pos, new_pos + DeltaBytesRead)
           r == LwBatch(valid_buffer, chunk_size, HashToIndex(chunks), ops,
                        pending_literal)
       IN  /\ ops' = r.ops
           /\ pending_literal' = r.pending_literal
    /\ total_size' = TotalSize(DeltaBytesRead)
    /\ new_pos' = new_pos + DeltaBytesRead
    /\ UNCHANGED <<base, target, chunk_size, pc, sig_pos, chunks, index,
                   dlt_chunk_size, op_i, old_pos, output>>
    /\ UNCHANGED <<iovars, rcvars, bzvars, seek_log>>

\* blocks one byte longer than the hash is wide: the first byte of such a
\* block has been rotated BITS times when the last one is absorbed
WideChunk == BITS + 1

WideBlocks ==
    {[k \in 1..WideChunk |-> IF k = 1 THEN x ELSE IF k = WideChunk THEN y ELSE 0] :
        x \in Bytes, y \in Bytes}

\* Any base, any target, any chunk size; and bases and targets of one block
\* wider than the hash.
InitLight ==
    /\ \/ /\ base \in SeqsUpTo(Bytes, MaxLightBaseLen)
          /\ target \in SeqsUpTo(Bytes, MaxLightTargetLen)
          /\ chunk_size \in 0..MaxChunkSize
       \/ /\ base \in WideBlocks
          /\ target \in WideBlocks
          /\ chunk_size = WideChunk
    /\ Start

NextLight ==
    \/ LwSignatureRead
    \/ SignatureReturn
    \/ DeltaZero
    \/ LwDeltaBatch
    \/ DeltaReturn
    \/ ApplyCopy
    \/ ApplyInsert
    \/ ApplyReturn

SpecLight == InitLight /\ [][NextLight]_vars

(***************************************************************************)
(* BuzHash fed one byte at a time (src/src/buzhash.rs).                    *)
(***************************************************************************)
\* let shift = (self.window_size.get() % 64) as u32
OldShiftLess(window_size) == (window_size - 1) % BITS
OldShift(window_size) == window_size % BITS

\* window_size is the length of the circular buffer
WindowSize == Len(bz_window)

\* windows of BITS bytes and more, and streams that fill and pass them:
\* zeros but for the first and the last bytes
WideWindows == {BITS, BITS + 1}
WideStreams(w) ==
    {[k \in 1..(w + MaxWideFeeds) |-> IF k \in S THEN 1 ELSE 0] :
        S \in SUBSET {1, 2, w + 1, w + MaxWideFeeds}}

\* BuzHash::new(window_size), and the bytes it will be fed
InitBuz ==
    /\ \E w \in (1..MaxBuzWindow) \cup WideWindows :
          /\ bz_window = [i \in 1..w |-> 0]
          /\ IF w \in WideWindows
             THEN bz_data \in WideStreams(w)
             ELSE bz_data \in SeqsUpTo(Bytes, MaxBuzLen)
    /\ bz_n = 0
    /\ bz_hash = U64(<<0, 0, 0, 0>>)
    /\ bz_pos = 0
    /\ bz_full = FALSE
    /\ bz_pc = "new"
    /\ PipelineIdle
    /\ RcIdle

\* buzhash.update(byte) for the next byte
BzUpdate ==
    /\ bz_pc \in {"new", "fed", "reset", "refed"}
    /\ bz_n < Len(bz_data)
    /\ LET byte == bz_data[bz_n + 1]
           added == HashStep(bz_hash, byte)
           old_byte == bz_window[bz_pos + 1]
           pos == (bz_pos + 1) % WindowSize
       IN  /\ bz_hash' = IF bz_full
                         THEN Xor(added, RotateLeft(MapByteOf[old_byte],
                                                    OldShift(WindowSize)))
                         ELSE added
           /\ bz_window' = [bz_window EXCEPT ![bz_pos + 1] = byte]
           /\ bz_pos' = pos
           /\ bz_full' = (bz_full \/ pos = 0)
    /\ bz_n' = bz_n + 1
    /\ bz_pc' = IF bz_pc \in {"reset", "refed"} THEN "refed" ELSE "fed"
    /\ UNCHANGED bz_data
    /\ UNCHANGED <<base, target, chunk_size, pc, sig_pos, chunks, index, new_pos,
                   ops, total_size, pending_literal, dlt_chunk_size, op_i,
                   old_pos, output, iovars, rcvars, seek_log>>

\* buzhash.reset(), once, early in the stream: the bytes that were fed are
\* forgotten
BzReset ==
    /\ bz_pc = "fed"
    /\ bz_n <= MaxBuzLen
    /\ bz_hash' = U64(<<0, 0, 0, 0>>)
    /\ bz_pos' = 0
    /\ bz_full' = FALSE
    /\ bz_window' = [i \in 1..WindowSize |-> 0]
    /\ bz_data' = SubSeq(bz_data, bz_n + 1, Len(bz_data))
    /\ bz_n' = 0
    /\ bz_pc' = "reset"
    /\ UNCHANGED <<base, target, chunk_size, pc, sig_pos, chunks, index, new_pos,
                   ops, total_size, pending_literal, dlt_chunk_size, op_i,
                   old_pos, output, iovars, rcvars, seek_log>>

NextBuz ==
    \/ BzUpdate
    \/ BzReset

SpecBuz == InitBuz /\ [][NextBuz]_vars

(***************************************************************************)
(* Similar files: the target is the base with a few bytes substituted      *)
(* (tests/proptest_delta.rs, large_similar_files).                         *)
(***************************************************************************)
\* what the test counts per op: 8 for a Copy, data.len() + 8 for an Insert
OpCost == 8

\* the blocks of the bases: more than the positions substituted
SimilarBlocks == MaxSubs + 2

\* bases whose last block is one byte long, and bases of whole blocks
SimilarLens == {(SimilarBlocks - 1) * SimilarChunk + 1, SimilarBlocks * SimilarChunk}

\* bases of equal blocks, of blocks of two kinds, and of distinct blocks
SimilarBases ==
    UNION {{[i \in 1..n |-> 0],
            [i \in 1..n |-> ((i - 1) \div SimilarChunk) % 2],
            [i \in 1..n |-> IF (i - 1) % SimilarChunk = (i - 1) \div SimilarChunk
                            THEN 1 ELSE 0]} : n \in SimilarLens}

\* modified[idx] = byte, for up to k (idx, byte)
RECURSIVE Substituted(_, _)
Substituted(data, k) ==
    IF k = 0
    THEN {data}
    ELSE LET less == Substituted(data, k - 1)
         IN  less \cup {[d EXCEPT ![p] = b] : d \in less, p \in 1..Len(data), b \in Bytes}

InitSimilar ==
    /\ base \in SimilarBases
    /\ target \in Substituted(base, MaxSubs)
    /\ chunk_size = SimilarChunk
    /\ Start

NextSimilar ==
    \/ SignatureRead
    \/ SignatureReturn
    \/ DeltaBatch
    \/ DeltaReturn
    \/ ApplyCopy
    \/ ApplyInsert
    \/ ApplyReturn

SpecSimilar == InitSimilar /\ [][NextSimilar]_vars

(***************************************************************************)
(* Properties of the Delta that delta returns and of what apply writes.    *)
(***************************************************************************)
\* delta has returned: ops, total_size and dlt_chunk_size are the returned Delta
Returned == pc \in {"apply", "done"}

\* the byte range of the base a Copy stands for, as apply reads it
RangeOffset(op) == CopyOffset(op.index, dlt_chunk_size)
RangeLength(op) == CopyBytesRead(op.index, dlt_chunk_size)

HasCopy == \E k \in 1..Len(ops) : IsCopy(ops[k])
HasInsert == \E k \in 1..Len(ops) : IsInsert(ops[k])

\* C1: for every base, every target and every positive chunk size, applying
\* delta(target, signature_with_chunk_size(base, chunk_size)) to the base
\* writes exactly the target bytes.
RoundTrip ==
    (pc = "done" /\ chunk_size > 0) => output = target

\* a round trip of a target that differs from the base and needs both a Copy
\* and an Insert
RoundTripWitness ==
    /\ pc = "done"
    /\ chunk_size > 0
    /\ target /= base
    /\ HasCopy
    /\ HasInsert
    /\ output = target

\* C2: when the target equals the base, the returned delta holds no Insert
\* and applying it reproduces the base.
Identity ==
    (Returned /\ chunk_size > 0 /\ target = base) =>
        /\ ~HasInsert
        /\ pc = "done" => output = base

\* an identity run over a base of several blocks ending in a short block,
\* read in more than one batch
IdentityWitness ==
    /\ pc = "done"
    /\ chunk_size > 0
    /\ target = base
    /\ Len(base) > BatchSize(chunk_size)
    /\ Len(base) % chunk_size /= 0
    /\ ~HasInsert
    /\ output = base

\* C3: in a returned Delta no two consecutive commands are both Inserts.
NoConsecutiveInserts ==
    Returned =>
        \A k \in 1..(Len(ops) - 1) : ~(IsInsert(ops[k]) /\ IsInsert(ops[k + 1]))

\* a run of unmatched bytes longer than one read batch, emitted as one Insert
\* in front of a Copy
NoConsecutiveInsertsWitness ==
    /\ Returned
    /\ chunk_size > 0
    /\ \E k \in 1..(Len(ops) - 1) :
          /\ IsInsert(ops[k])
          /\ Len(ops[k].data) > BatchSize(chunk_size)
          /\ IsCopy(ops[k + 1])

\* C5: every command of a returned Delta is well formed: an Insert carries
\* at least one byte, a Copy stands for at least one byte of the base and its
\* range lies inside the base.
WellFormedOps ==
    (Returned /\ chunk_size > 0) =>
        \A k \in 1..Len(ops) :
            /\ IsInsert(ops[k]) => Len(ops[k].data) >= 1
            /\ IsCopy(ops[k]) =>
                  /\ ops[k].index * chunk_size < Len(base)
                  /\ RangeLength(ops[k]) >= 1
                  /\ RangeOffset(ops[k]) + RangeLength(ops[k]) <= Len(base)

\* a returned Delta with an Insert and with a Copy of the short last block of
\* the base
WellFormedOpsWitness ==
    /\ Returned
    /\ chunk_size > 0
    /\ HasInsert
    /\ \E k \in 1..Len(ops) :
          /\ IsCopy(ops[k])
          /\ RangeLength(ops[k]) < chunk_size
          /\ RangeOffset(ops[k]) + RangeLength(ops[k]) = Len(base)

\* C9: for a non-empty base and a positive chunk size, an empty target gives
\* a Delta without commands, and applying it writes nothing.
EmptyTarget ==
    (Returned /\ chunk_size > 0 /\ base /= <<>> /\ target = <<>>) =>
        /\ ops = <<>>
        /\ pc = "done" => output = <<>>

EmptyTargetWitness ==
    /\ pc = "done"
    /\ chunk_size > 0
    /\ base /= <<>>
    /\ target = <<>>
    /\ ops = <<>>
    /\ output = <<>>

\* C10: with an empty base, the delta of a non-empty target is the single
\* command Insert(target).
EmptyBase ==
    (Returned /\ chunk_size > 0 /\ base = <<>> /\ target /= <<>>) =>
        ops = <<Insert(target)>>

\* an empty base and a target of more than one read batch whose length is no
\* multiple of the chunk size
EmptyBaseWitness ==
    /\ Returned
    /\ chunk_size > 0
    /\ base = <<>>
    /\ Len(target) > BatchSize(chunk_size)
    /\ Len(target) % chunk_size /= 0
    /\ ops = <<Insert(target)>>

\* the blocks of data, as the signature reads them, have pairwise distinct
\* contents
BlocksDistinct(data, size) ==
    \A i, j \in 0..(NumChunks(data, size) - 1) :
        i /= j => ChunkAt(data, size, i) /= ChunkAt(data, size, j)

\* C4: in a returned Delta no two consecutive Copies are adjacent in the
\* base, the first range ending exactly where the second begins.
NoAdjacentCopies ==
    (Returned /\ chunk_size > 0) =>
        \A k \in 1..(Len(ops) - 1) :
            (IsCopy(ops[k]) /\ IsCopy(ops[k + 1])) =>
                RangeOffset(ops[k]) + RangeLength(ops[k]) /= RangeOffset(ops[k + 1])

\* C6: when the target equals a non-empty base of whole blocks with pairwise
\* distinct contents, the delta is the single command Copy{0, base length}.
WholeBaseOneCopy ==
    (/\ Returned
     /\ chunk_size > 0
     /\ target = base
     /\ base /= <<>>
     /\ Len(base) % chunk_size = 0
     /\ BlocksDistinct(base, chunk_size)) =>
        /\ Len(ops) = 1
        /\ IsCopy(ops[1])
        /\ RangeOffset(ops[1]) = 0
        /\ RangeLength(ops[1]) = Len(base)

\* the sum of the lengths of the Copies among the_ops
RECURSIVE SumCopyLengths(_)
SumCopyLengths(the_ops) ==
    IF the_ops = <<>>
    THEN 0
    ELSE (IF IsCopy(Head(the_ops)) THEN RangeLength(Head(the_ops)) ELSE 0)
         + SumCopyLengths(Tail(the_ops))

\* C7: when the target is the base (whole blocks) preceded by a prefix whose
\* length is no multiple of the chunk size, and no chunk-size window of the
\* target that overlaps the prefix equals a block of the base, the delta has
\* exactly one Insert, its payload is the prefix, and the lengths of its
\* Copies sum to the base length.
PrependedPrefix ==
    LET p == Len(target) - Len(base)
    IN  (/\ Returned
         /\ chunk_size > 0
         /\ p > 0
         /\ p % chunk_size /= 0
         /\ Len(base) % chunk_size = 0
         /\ Slice(target, p, Len(target)) = base
         /\ \A j \in 0..(p - 1) :
               j + chunk_size <= Len(target) =>
                   \A i \in 0..(NumChunks(base, chunk_size) - 1) :
                       Slice(target, j, j + chunk_size) /= ChunkAt(base, chunk_size, i)) =>
            /\ Cardinality({k \in 1..Len(ops) : IsInsert(ops[k])}) = 1
            /\ \E k \in 1..Len(ops) :
                  IsInsert(ops[k]) /\ ops[k].data = Slice(target, 0, p)
            /\ SumCopyLengths(ops) = Len(base)

\* C8: for a base whose blocks have pairwise distinct contents and a target
\* equal to the base with one whole interior block k removed, the delta is
\* exactly Copy{0, k*B}, Copy{(k+1)*B, base length - (k+1)*B}.
InteriorBlockRemoved ==
    (Returned /\ chunk_size > 0 /\ BlocksDistinct(base, chunk_size)) =>
        \A k \in 1..(NumChunks(base, chunk_size) - 2) :
            target = RemoveBlock(base, chunk_size, k) =>
                /\ Len(ops) = 2
                /\ IsCopy(ops[1])
                /\ RangeOffset(ops[1]) = 0
                /\ RangeLength(ops[1]) = k * chunk_size
                /\ IsCopy(ops[2])
                /\ RangeOffset(ops[2]) = (k + 1) * chunk_size
                /\ RangeLength(ops[2]) = Len(base) - (k + 1) * chunk_size

\* signature_with_chunk_size has returned Ok(Signature { chunk_size, chunks })
SigReturned == pc \in {"delta", "apply", "done"}

\* C11: for a non-empty target shorter than one block the delta is exactly
\* one command: a Copy of the target's length when the target's bytes equal
\* a block recorded in the signature (the short last block of the base),
\* Insert(target) otherwise.
ShortTarget ==
    (Returned /\ chunk_size > 0 /\ target /= <<>> /\ Len(target) < chunk_size) =>
        IF \E k \in 1..Len(chunks) : chunks[k].hash = Blake3(target)
        THEN /\ Len(ops) = 1
             /\ IsCopy(ops[1])
             /\ RangeLength(ops[1]) = Len(target)
             /\ RangeOffset(ops[1]) + RangeLength(ops[1]) = Len(base)
             /\ SubSeq(base, Len(base) - Len(target) + 1, Len(base)) = target
        ELSE ops = <<Insert(target)>>

\* a short target that equals the short last block of a base of several blocks
ShortTargetWitness ==
    /\ Returned
    /\ chunk_size > 0
    /\ target /= <<>>
    /\ Len(target) < chunk_size
    /\ Len(base) > chunk_size
    /\ Len(ops) = 1
    /\ IsCopy(ops[1])

\* C12: for a base of length L and a positive chunk size B the signature
\* holds ceil(L/B) entries, and the entry at position k (from 0) has index k
\* and the hash of base[k*B .. min((k+1)*B, L)).
SignatureBlocks ==
    (SigReturned /\ chunk_size > 0) =>
        LET n == Len(chunks)
            L == Len(base)
            B == chunk_size
        IN  /\ n * B >= L
            /\ n > 0 => (n - 1) * B < L
            /\ \A k \in 0..(n - 1) :
                  /\ chunks[k + 1].index = k
                  /\ chunks[k + 1].hash =
                        Blake3(SubSeq(base, k * B + 1,
                                      IF (k + 1) * B < L THEN (k + 1) * B ELSE L))

\* a signature of several blocks whose last block is short
SignatureBlocksWitness ==
    /\ SigReturned
    /\ chunk_size > 0
    /\ Len(chunks) >= 2
    /\ Len(base) % chunk_size /= 0

\* C13: a chunk size of zero is rejected: neither the signature builder nor
\* the delta builder returns Ok for it.
ZeroChunkSizeRejected ==
    chunk_size = 0 => ~SigReturned /\ ~Returned

\* C14: apply does not return Ok for a malformed Delta, one with a Copy whose
\* block index lies at or beyond the end of the base.
MalformedCopyRejected ==
    (pc = "done" /\ dlt_chunk_size > 0) =>
        \A k \in 1..Len(ops) :
            IsCopy(ops[k]) => ops[k].index * dlt_chunk_size < Len(base)

\* the bytes a command stands for: the payload of an Insert, the block of the
\* base at the index of a Copy
ByteEffect(op) ==
    IF IsInsert(op)
    THEN op.data
    ELSE SubSeq(base, op.index * dlt_chunk_size + 1,
                IF (op.index + 1) * dlt_chunk_size < Len(base)
                THEN (op.index + 1) * dlt_chunk_size
                ELSE Len(base))

\* the byte-effects of the_ops, concatenated in command order
RECURSIVE Effects(_)
Effects(the_ops) ==
    IF the_ops = <<>>
    THEN <<>>
    ELSE ByteEffect(Head(the_ops)) \o Effects(Tail(the_ops))

\* C20: apply preserves command order: whenever it has applied the first
\* op_i commands of any Delta, what it has written is the concatenation of
\* their byte-effects in command order.
ApplyInOrder ==
    pc \in {"apply", "done"} => output = Effects(SubSeq(ops, 1, op_i))

\* a Delta of several commands, Copies and Inserts, applied to the end
ApplyInOrderWitness ==
    /\ pc = "done"
    /\ Len(ops) >= 3
    /\ IsCopy(ops[1])
    /\ IsInsert(ops[2])
    /\ ByteEffect(ops[1]) /= <<>>
    /\ ByteEffect(ops[1]) /= ByteEffect(ops[3])
    /\ output = Effects(ops)

\* what signature and delta return over a Cursor, which answers every read
\* in full and never with an error: the loops of the two functions, run from
\* reader position pos
RECURSIVE CursorSignature(_, _)
CursorSignature(pos, cs) ==
    LET bytes_read == ReadExactOrEof(base, pos, chunk_size)
    IN  IF bytes_read = 0
        THEN cs
        ELSE CursorSignature(pos + bytes_read,
                             Append(cs, [index |-> Len(cs),
                                         hash |-> Blake3(Slice(base, pos, pos + bytes_read))]))

RECURSIVE CursorDelta(_, _, _)
CursorDelta(pos, the_ops, pending) ==
    LET bytes_read == ReadExactOrEof(target, pos, BatchSize(chunk_size))
    IN  IF bytes_read = 0
        THEN FlushLiteral(the_ops, pending)
        ELSE LET r == Batch(Slice(target, pos, pos + bytes_read), chunk_size,
                            HashToIndex(CursorSignature(0, <<>>)), the_ops, pending)
             IN  CursorDelta(pos + bytes_read, r.ops, r.pending_literal)

\* C15: once the reader has returned an error other than Interrupted, the
\* running function has returned that same error: it has not gone on to
\* return Ok, and nothing it built is handed on.
ReadErrorSurfaced ==
    rd_err \notin {"none", "Interrupted"} =>
        /\ result = rd_err
        /\ pc \in {"signature", "delta", "apply"}
        /\ pc /= "apply" => output = <<>>

\* delta fails in its second batch, after part of the batch was read
ReadErrorSurfacedWitness ==
    /\ pc = "delta"
    /\ result = "BrokenPipe"
    /\ new_pos > 0
    /\ rd_buf /= <<>>
    /\ Len(rd_buf) < RdBufLen

\* C16: Interrupted is never returned, and whatever number of reads were
\* answered with Interrupted, signature, delta and apply return what they
\* return over an uninterrupted reader.
InterruptTransparent ==
    /\ result /= "Interrupted"
    /\ SigReturned => chunks = CursorSignature(0, <<>>)
    /\ Returned =>
           /\ dlt_chunk_size = chunk_size
           /\ chunk_size = 0 => ops = <<>> /\ total_size = 0
           /\ chunk_size > 0 =>
                  ops = CursorDelta(0, <<>>, <<>>) /\ total_size = Len(target)
    /\ pc = "done" => output = Effects(ops)

\* a whole run with Copies and Inserts whose readers were interrupted
InterruptTransparentWitness ==
    /\ pc = "done"
    /\ result = "none"
    /\ interrupts >= 2
    /\ Len(chunks) >= 2
    /\ HasCopy
    /\ HasInsert
    /\ output = target

\* the scalar reference Adler-32 (adler32_scalar of the tests of rolling.rs)
RECURSIVE Adler32Loop(_, _, _)
Adler32Loop(a, b, data) ==
    IF data = <<>>
    THEN Value(a, b)
    ELSE LET a1 == (a + Head(data)) % MOD
         IN  Adler32Loop(a1, (b + a1) % MOD, Tail(data))

Adler32Scalar(data) == Adler32Loop(1, 0, data)

\* C17: a bulk update from the initial state yields the value of the scalar
\* reference Adler-32, whatever the length of the bytes.
BulkMatchesScalar ==
    rc_pc = "updated" => Value(rc_a, rc_b) = Adler32Scalar(Window(0))

\* bytes that span more than one chunk and end in a partial block
BulkMatchesScalarWitness ==
    /\ rc_pc = "updated"
    /\ rc_w > CHUNK_SIZE
    /\ rc_w % BLOCK_SIZE /= 0
    /\ rc_data[1] /= 0
    /\ rc_data[rc_w] /= 0
    /\ rc_data[1] /= rc_data[2]

\* C18: after each roll the value is that of a fresh checksum bulk-updated
\* over the window the roll moved to, for every window length.
RollEquivalence ==
    rc_rolls >= 1 =>
        /\ rc_pc = "rolled"
        /\ Value(rc_a, rc_b) = Compute(Window(rc_rolls))

\* the sum of x_i, and the sum of (n - i + 1) * x_i, over data = x_1..x_n
RECURSIVE WeightedSum(_)
WeightedSum(data) ==
    IF data = <<>>
    THEN 0
    ELSE Len(data) * Head(data) + WeightedSum(Tail(data))

\* C19 as stated: after absorbing x_1..x_n, a = (1 + sum x_i) mod MOD and
\* b = (sum (n - i + 1) * x_i) mod MOD.
ClosedFormNoLength ==
    rc_pc = "updated" =>
        /\ rc_a = (1 + ReduceSum(Window(0))) % MOD
        /\ rc_b = WeightedSum(Window(0)) % MOD

\* C19: after absorbing x_1..x_n from the initial state,
\* a = (1 + sum x_i) mod MOD, b = (n + sum (n - i + 1) * x_i) mod MOD, and
\* value() is (b << 16) | a of the two.
ClosedForm ==
    rc_pc = "updated" =>
        /\ rc_a = (1 + ReduceSum(Window(0))) % MOD
        /\ rc_b = (rc_w + WeightedSum(Window(0))) % MOD
        /\ Compute(Window(0)) = Value(rc_a, rc_b)
        /\ Value(rc_a, rc_b) % HALF = rc_a
        /\ Value(rc_a, rc_b) \div HALF = rc_b

\* several bytes absorbed, the halves reduced mod MOD
ClosedFormWitness ==
    /\ rc_pc = "updated"
    /\ rc_w >= 3
    /\ 1 + ReduceSum(Window(0)) >= MOD
    /\ rc_w + WeightedSum(Window(0)) >= MOD
    /\ rc_a /= rc_b

\* C21: the lightweight round trip: for every base, every target and every
\* positive block size, apply_to_vec on the lightweight delta of the target
\* against the lightweight signature of the base returns the target.
LightRoundTrip ==
    (pc = "done" /\ chunk_size > 0) => output = target

\* delta_size of the test: 8 per Copy, data.len() + 8 per Insert
RECURSIVE EncodedSize(_)
EncodedSize(the_ops) ==
    IF the_ops = <<>>
    THEN 0
    ELSE (IF IsCopy(Head(the_ops)) THEN OpCost ELSE Len(Head(the_ops).data) + OpCost)
         + EncodedSize(Tail(the_ops))

\* C22: for a target that is the base with a few bytes substituted, the
\* delta has at least one Copy and its encoded size is strictly less than
\* the length of the target.
DeltaSmaller ==
    Returned => HasCopy /\ EncodedSize(ops) < Len(target)

\* a delta of Copies around the Insert of a substituted block
DeltaSmallerWitness ==
    /\ Returned
    /\ target /= base
    /\ Len(ops) >= 3
    /\ HasInsert
    /\ IsCopy(ops[1])
    /\ IsCopy(ops[Len(ops)])

\* C23: apply seeks the base only when the position of its reader differs
\* from the offset of the Copy: no seek is issued from a position to itself.
NoRedundantSeek ==
    \A k \in 1..Len(seek_log) : seek_log[k].from /= seek_log[k].to
\* C24: after any sequence of new, update and roll calls, with any slices,
\* any bytes and any window_size from 1 to MaxWindow, both halves are below
\* MOD, and value() packs them without overlap: its low half is a and its
\* high half is b.
ReducedHalves ==
    rc_pc \in {"new", "updated", "rolled"} =>
        /\ rc_a < MOD
        /\ rc_b < MOD
        /\ Value(rc_a, rc_b) % HALF = rc_a
        /\ Value(rc_a, rc_b) \div HALF = rc_b

ReducedHalvesWitness ==
    /\ rc_pc = "rolled"
    /\ rc_calls >= 1
    /\ rc_calls + rc_rolls = MaxCallSeq
    /\ rc_rolls >= 1
    /\ rc_w = MaxWindow
    /\ rc_count > CHUNK_SIZE
    /\ rc_a = MOD - 1

\* C25: no intermediate result of update or of roll leaves the word, from
\* any state with both halves below MOD: for every slice, the worst bytes
\* included, and for every pair of bytes and every window_size from 1 to
\* MaxWindow.
NoOverflow ==
    rc_pc \in {"updated", "rolled"} =>
        /\ rc_hi < U32
        /\ rc_lo >= 0

\* a chunk whose largest intermediate uses the top bit of the word
NoOverflowWitness ==
    /\ rc_pc = "updated"
    /\ rc_count >= CHUNK_SIZE
    /\ 2 * rc_hi >= U32
    /\ rc_hi < U32

\* C26: update on consecutive slices of a byte sequence, empty slices
\* included, leaves the same (a, b) and the same value() as one update
\* over the bytes fed so far.
SplitIndependent ==
    rc_pc = "updated" =>
        LET whole == Update(1, 0, Fed)
        IN  /\ rc_a = whole.a
            /\ rc_b = whole.b
            /\ Value(rc_a, rc_b) = Compute(Fed)

SplitIndependentWitness ==
    /\ rc_pc = "updated"
    /\ rc_calls >= 3
    /\ rc_count = Len(rc_data)
    /\ rc_count > CHUNK_SIZE
    /\ rc_count % BLOCK_SIZE /= 0
    /\ rc_a /= 1

\* C27: after n bytes fed one at a time to a BuzHash of window size w that
\* was new or just reset, hash() is hash_slice of the last min(n, w) bytes
\* fed; with no byte fed it is 0, the hash64 of the empty data.
WindowHash ==
    bz_pc \in {"new", "fed", "reset", "refed"} =>
        /\ bz_hash = HashSlice(SubSeq(bz_data,
                                      bz_n - Min(bz_n, WindowSize) + 1, bz_n))
        /\ bz_n = 0 => bz_hash = U64(<<0, 0, 0, 0>>)
        /\ HashSlice(<<>>) = U64(<<0, 0, 0, 0>>)

\* a window of more than BITS bytes has slid, over a byte that was not 0
WindowHashWitness ==
    /\ bz_pc = "fed"
    /\ WindowSize > BITS
    /\ bz_n > WindowSize
    /\ bz_data[1] = 1
    /\ bz_data[bz_n] = 1
    /\ bz_full

\* C28: the size recorded in the Delta that delta returns for a positive
\* chunk size is the number of bytes of the target, the sum of the lengths
\* of the byte-effects of its commands against the base, and the number of
\* bytes apply writes for it.
FinalSize ==
    (Returned /\ chunk_size > 0) =>
        /\ total_size = Len(target)
        /\ total_size = Len(Effects(ops))
        /\ pc = "done" => Len(output) = total_size

\* a delta with an Insert and with the Copy of a short last block, for a
\* target that is longer than a batch and not as long as the base
FinalSizeWitness ==
    /\ pc = "done"
    /\ chunk_size > 0
    /\ HasInsert
    /\ \E k \in 1..Len(ops) :
          /\ IsCopy(ops[k])
          /\ Len(ByteEffect(ops[k])) < dlt_chunk_size
    /\ Len(target) > BatchSize(chunk_size)
    /\ Len(target) /= Len(base)
    /\ total_size = Len(target)

\* the Signature of the base as a function of its bytes alone: one block
\* for every chunk_size bytes, a shorter one only at the end
BlocksOf(data, size) ==
    IF size = 0
    THEN <<>>
    ELSE [k \in 1..NumChunks(data, size) |->
             [index |-> k - 1, hash |-> Blake3(ChunkAt(data, size, k - 1))]]

\* C29: signature and delta return what the bytes of their streams
\* determine, however the readers cut them into partial reads: the
\* Signature is the blocks of the base and the Delta that of a reader that
\* answers every read in full; a short read makes no short block before the
\* end of the stream, in the base or in a batch of the target.
FragmentIndependent ==
    /\ SigReturned => chunks = BlocksOf(base, chunk_size)
    /\ (pc = "signature" /\ chunk_size > 0) =>
           /\ sig_pos = Min(index * chunk_size, Len(base))
           /\ chunks = BlocksOf(Slice(base, 0, sig_pos), chunk_size)
    /\ (pc = "delta" /\ chunk_size > 0) =>
           new_pos = Len(target) \/ new_pos % BatchSize(chunk_size) = 0
    /\ (Returned /\ chunk_size > 0) => ops = CursorDelta(0, <<>>, <<>>)

\* a run whose readers answered with partial reads, over a base of several
\* blocks, the last one short
FragmentIndependentWitness ==
    /\ pc = "apply"
    /\ op_i = 0
    /\ rd_short
    /\ interrupts = 0
    /\ Len(chunks) >= 2
    /\ Len(base) % chunk_size /= 0
    /\ HasCopy
    /\ HasInsert

\* C30: signature, delta and apply terminate, with Ok or with Err, for
\* every base, target, Delta and chunk size, 0 included, when the reader
\* does not answer Interrupted for ever.
Terminates == <>(pc = "done" \/ result /= "none")

\* a whole run that ended after partial reads and as many Interrupted
\* answers as a reader gives
TerminatesWitness ==
    /\ pc = "done"
    /\ result = "none"
    /\ rd_short
    /\ interrupts = MaxInterrupts
    /\ chunk_size > 0
    /\ Len(ops) >= 2
    /\ Len(chunks) >= 2

====
